---- MODULE Spec2Model ----
(***************************************************************************)
(* Model of dart-detective/scripts/analyze_logs.py: the LogAnalyzer class  *)
(* (pattern passes, stack-trace grouping, report) and main().              *)
(*                                                                         *)
(* Text is modelled as it is in the program: a Python str is a sequence of *)
(* one-character strings, so substring search, startswith, strip, split    *)
(* and join are computed on the characters.                                *)
(***************************************************************************)
EXTENDS Integers, Sequences, FiniteSets, TLC

VARIABLES
  argv,        \* sys.argv[1:]: "none" (read stdin) or "file" (a path was given)
  fs,          \* what open(filepath) does: "ok", "missing" or "unreadable"
  content,     \* the text of the file, or of the standard input stream
  lines,       \* all_lines: the list the analysis loop iterates over
  idx,         \* position of the analysis loop (0-based index of the next line)
  analyzer,    \* the LogAnalyzer instance: errors, warnings, stack_traces,
               \* patterns, security_issues, performance_issues
  spans,       \* history: for each recorded stack trace, the 0-based indices
               \* <<first, last>> of the input lines joined into it
  stdout,      \* what was printed to standard output, in order
  stderr,      \* what was written to standard error, in order
  pc,          \* position in main(): "main", "loop" or "done"
  exit_code,   \* the process exit status once pc = "done" (-1 before)
  order,       \* the order in which _process_line runs the five pattern passes
  alt          \* a second LogAnalyzer fed the same lines with the passes run in
               \* the order `order` (used only by SpecOrder)

vars == <<argv, fs, content, lines, idx, analyzer, spans, stdout, stderr, pc,
          exit_code, order, alt>>

-----------------------------------------------------------------------------
(* Python str operations, on sequences of characters.                      *)

\* the ASCII letters re.IGNORECASE folds
UpperCase == <<"A","B","C","D","E","F","G","H","I","J","K","L","M",
               "N","O","P","Q","R","S","T","U","V","W","X","Y","Z">>
LowerCase == <<"a","b","c","d","e","f","g","h","i","j","k","l","m",
               "n","o","p","q","r","s","t","u","v","w","x","y","z">>

\* c.lower() for one character, as a table
fold_table ==
  [c \in {UpperCase[k] : k \in 1..Len(UpperCase)} |->
     LowerCase[CHOOSE k \in 1..Len(UpperCase) : UpperCase[k] = c]]

fold(c) == IF c \in DOMAIN fold_table THEN fold_table[c] ELSE c

\* the characters str.strip() removes
Whitespace == {" ", "\t", "\n", "\r"}

RECURSIVE lstrip(_)
lstrip(s) ==
  IF s # <<>> /\ Head(s) \in Whitespace THEN lstrip(Tail(s)) ELSE s

RECURSIVE rstrip(_)
rstrip(s) ==
  IF s # <<>> /\ s[Len(s)] \in Whitespace
  THEN rstrip(SubSeq(s, 1, Len(s) - 1))
  ELSE s

\* s.strip()
strip(s) == rstrip(lstrip(s))

\* s[p:p+len(t)] == t, with p a 1-based position
occurs_at(s, t, p) ==
  /\ p >= 1
  /\ p + Len(t) - 1 <= Len(s)
  /\ \A k \in 1..Len(t) : s[p + k - 1] = t[k]

\* t in s
contains(s, t) == \E p \in 1..(Len(s) - Len(t) + 1) : occurs_at(s, t, p)

\* s.startswith(t)
startswith(s, t) == occurs_at(s, t, 1)

\* s.split(sep) for a one-character separator
RECURSIVE split(_, _)
split(s, sep) ==
  IF \E p \in 1..Len(s) : s[p] = sep
  THEN LET p == CHOOSE q \in 1..Len(s) :
                  s[q] = sep /\ \A r \in 1..(q - 1) : s[r] # sep
       IN  <<SubSeq(s, 1, p - 1)>> \o split(SubSeq(s, p + 1, Len(s)), sep)
  ELSE <<s>>

\* f.readlines(): the lines of the stream, each keeping its "\n"
RECURSIVE readlines(_)
readlines(s) ==
  IF s = <<>> THEN <<>>
  ELSE IF \E p \in 1..Len(s) : s[p] = "\n"
  THEN LET p == CHOOSE q \in 1..Len(s) :
                  s[q] = "\n" /\ \A r \in 1..(q - 1) : s[r] # "\n"
       IN  <<SubSeq(s, 1, p)>> \o readlines(SubSeq(s, p + 1, Len(s)))
  ELSE <<s>>

\* sep.join(parts)
RECURSIVE join(_, _)
join(sep, parts) ==
  IF parts = <<>> THEN <<>>
  ELSE IF Len(parts) = 1 THEN parts[1]
  ELSE parts[1] \o sep \o join(sep, Tail(parts))

-----------------------------------------------------------------------------
(* re.search(pattern, line, re.IGNORECASE) for the shapes of pattern the   *)
(* catalogs use.  A pattern is a set of alternative chains; a chain        *)
(* x.*y.*z is the sequence of its literal alternations <<x, y, z>>, each a *)
(* set of literals.  A chain is found in s iff its parts occur in order    *)
(* without overlap ('.' matches every character of a line, which holds no  *)
(* newline); taking each part at its earliest end decides that.            *)

\* t occurs in s at the 1-based position p, letter case ignored
occurs_at_ignorecase(s, t, p) ==
  /\ p >= 1
  /\ p + Len(t) - 1 <= Len(s)
  /\ \A k \in 1..Len(t) : fold(s[p + k - 1]) = fold(t[k])

\* the least position just after an occurrence, at or after `from`, of one
\* of the literals; 0 when there is none
earliest_end(s, literals, from) ==
  LET hits == UNION {{p + Len(t) :
                        p \in {q \in from..(Len(s) - Len(t) + 1) :
                                 occurs_at_ignorecase(s, t, q)}} :
                     t \in literals}
  IN  IF hits = {} THEN 0
      ELSE CHOOSE e \in hits : \A f \in hits : e <= f

RECURSIVE chain_from(_, _, _, _)
chain_from(s, chain, k, from) ==
  IF k > Len(chain) THEN TRUE
  ELSE LET e == earliest_end(s, chain[k], from)
       IN  e # 0 /\ chain_from(s, chain, k + 1, e)

re_search(pattern, line) ==
  \E chain \in pattern : chain_from(line, chain, 1, 1)

-----------------------------------------------------------------------------
(* The pattern catalogs, in the order the code lists them.                 *)

error_patterns ==
  << \* r'(NullPointerException|null pointer)': 'Null Pointer Exception'
     [pattern |-> {<<{<<"N","u","l","l","P","o","i","n","t","e","r","E","x","c","e","p","t","i","o","n">>, <<"n","u","l","l"," ","p","o","i","n","t","e","r">>}>>},
      name |-> "Null Pointer Exception"],
     \* r'(NoSuchMethodError)': 'No Such Method Error'
     [pattern |-> {<<{<<"N","o","S","u","c","h","M","e","t","h","o","d","E","r","r","o","r">>}>>},
      name |-> "No Such Method Error"],
     \* r'(ClassCastException)': 'Type Cast Error'
     [pattern |-> {<<{<<"C","l","a","s","s","C","a","s","t","E","x","c","e","p","t","i","o","n">>}>>},
      name |-> "Type Cast Error"],
     \* r'(OutOfMemoryError)': 'Out of Memory'
     [pattern |-> {<<{<<"O","u","t","O","f","M","e","m","o","r","y","E","r","r","o","r">>}>>},
      name |-> "Out of Memory"],
     \* r'(StackOverflowError)': 'Stack Overflow'
     [pattern |-> {<<{<<"S","t","a","c","k","O","v","e","r","f","l","o","w","E","r","r","o","r">>}>>},
      name |-> "Stack Overflow"],
     \* r'(IOException|File not found)': 'File I/O Error'
     [pattern |-> {<<{<<"I","O","E","x","c","e","p","t","i","o","n">>, <<"F","i","l","e"," ","n","o","t"," ","f","o","u","n","d">>}>>},
      name |-> "File I/O Error"],
     \* r'(NetworkError|Connection refused)': 'Network Error'
     [pattern |-> {<<{<<"N","e","t","w","o","r","k","E","r","r","o","r">>, <<"C","o","n","n","e","c","t","i","o","n"," ","r","e","f","u","s","e","d">>}>>},
      name |-> "Network Error"],
     \* r'(TimeoutException)': 'Timeout Error'
     [pattern |-> {<<{<<"T","i","m","e","o","u","t","E","x","c","e","p","t","i","o","n">>}>>},
      name |-> "Timeout Error"],
     \* r'(FormatException|JSON parsing)': 'Format/JSON Parse Error'
     [pattern |-> {<<{<<"F","o","r","m","a","t","E","x","c","e","p","t","i","o","n">>, <<"J","S","O","N"," ","p","a","r","s","i","n","g">>}>>},
      name |-> "Format/JSON Parse Error"],
     \* r'(StateError|Invalid state)': 'State Error'
     [pattern |-> {<<{<<"S","t","a","t","e","E","r","r","o","r">>, <<"I","n","v","a","l","i","d"," ","s","t","a","t","e">>}>>},
      name |-> "State Error"] >>

null_patterns ==
  << \* r'null safety'
     [pattern |-> {<<{<<"n","u","l","l"," ","s","a","f","e","t","y">>}>>}],
     \* r'nullable type'
     [pattern |-> {<<{<<"n","u","l","l","a","b","l","e"," ","t","y","p","e">>}>>}],
     \* r'null propagation'
     [pattern |-> {<<{<<"n","u","l","l"," ","p","r","o","p","a","g","a","t","i","o","n">>}>>}],
     \* r'Unhandled Exception.*null'
     [pattern |-> {<<{<<"U","n","h","a","n","d","l","e","d"," ","E","x","c","e","p","t","i","o","n">>}, {<<"n","u","l","l">>}>>}],
     \* r'accessing.*null'
     [pattern |-> {<<{<<"a","c","c","e","s","s","i","n","g">>}, {<<"n","u","l","l">>}>>}] >>

async_patterns ==
  << \* r'(uncaught|unhandled).*(future|async|await)'
     [pattern |-> {<<{<<"u","n","c","a","u","g","h","t">>, <<"u","n","h","a","n","d","l","e","d">>}, {<<"f","u","t","u","r","e">>, <<"a","s","y","n","c">>, <<"a","w","a","i","t">>}>>}],
     \* r'future.*failed'
     [pattern |-> {<<{<<"f","u","t","u","r","e">>}, {<<"f","a","i","l","e","d">>}>>}],
     \* r'(bad state|invalid async)'
     [pattern |-> {<<{<<"b","a","d"," ","s","t","a","t","e">>, <<"i","n","v","a","l","i","d"," ","a","s","y","n","c">>}>>}],
     \* r'stream.*closed'
     [pattern |-> {<<{<<"s","t","r","e","a","m">>}, {<<"c","l","o","s","e","d">>}>>}],
     \* r'subscript.*cancelled'
     [pattern |-> {<<{<<"s","u","b","s","c","r","i","p","t">>}, {<<"c","a","n","c","e","l","l","e","d">>}>>}],
     \* r'(MissingPluginException)'
     [pattern |-> {<<{<<"M","i","s","s","i","n","g","P","l","u","g","i","n","E","x","c","e","p","t","i","o","n">>}>>}] >>

security_patterns ==
  << \* r'(password|secret|token|api.*key).*(stored|saved|hardcoded)': 'Credential Storage'
     [pattern |-> {<<{<<"p","a","s","s","w","o","r","d">>, <<"s","e","c","r","e","t">>, <<"t","o","k","e","n">>}, {<<"s","t","o","r","e","d">>, <<"s","a","v","e","d">>, <<"h","a","r","d","c","o","d","e","d">>}>>,
                   <<{<<"a","p","i">>}, {<<"k","e","y">>}, {<<"s","t","o","r","e","d">>, <<"s","a","v","e","d">>, <<"h","a","r","d","c","o","d","e","d">>}>>},
      issue_type |-> "Credential Storage"],
     \* r'(ssl|certificate|tls).*verification.*(disabled|false)': 'SSL Verification Disabled'
     [pattern |-> {<<{<<"s","s","l">>, <<"c","e","r","t","i","f","i","c","a","t","e">>, <<"t","l","s">>}, {<<"v","e","r","i","f","i","c","a","t","i","o","n">>}, {<<"d","i","s","a","b","l","e","d">>, <<"f","a","l","s","e">>}>>},
      issue_type |-> "SSL Verification Disabled"],
     \* r'(sql.*injection|command.*injection)': 'Injection Vulnerability'
     [pattern |-> {<<{<<"s","q","l">>}, {<<"i","n","j","e","c","t","i","o","n">>}>>,
                   <<{<<"c","o","m","m","a","n","d">>}, {<<"i","n","j","e","c","t","i","o","n">>}>>},
      issue_type |-> "Injection Vulnerability"],
     \* r'(xss|cross.*site.*scripting)': 'XSS Vulnerability'
     [pattern |-> {<<{<<"x","s","s">>}>>,
                   <<{<<"c","r","o","s","s">>}, {<<"s","i","t","e">>}, {<<"s","c","r","i","p","t","i","n","g">>}>>},
      issue_type |-> "XSS Vulnerability"],
     \* r'debug.*(enabled|true).*production': 'Debug Enabled in Production'
     [pattern |-> {<<{<<"d","e","b","u","g">>}, {<<"e","n","a","b","l","e","d">>, <<"t","r","u","e">>}, {<<"p","r","o","d","u","c","t","i","o","n">>}>>},
      issue_type |-> "Debug Enabled in Production"],
     \* r'log.*password|password.*log': 'Password in Logs'
     [pattern |-> {<<{<<"l","o","g">>}, {<<"p","a","s","s","w","o","r","d">>}>>,
                   <<{<<"p","a","s","s","w","o","r","d">>}, {<<"l","o","g">>}>>},
      issue_type |-> "Password in Logs"] >>

perf_patterns ==
  << \* r'ANR.*application not responding': 'ANR (App Not Responding)'
     [pattern |-> {<<{<<"A","N","R">>}, {<<"a","p","p","l","i","c","a","t","i","o","n"," ","n","o","t"," ","r","e","s","p","o","n","d","i","n","g">>}>>},
      issue_type |-> "ANR (App Not Responding)"],
     \* r'(jank|frame.*drop|dropped.*frame)': 'Dropped Frames'
     [pattern |-> {<<{<<"j","a","n","k">>}>>,
                   <<{<<"f","r","a","m","e">>}, {<<"d","r","o","p">>}>>,
                   <<{<<"d","r","o","p","p","e","d">>}, {<<"f","r","a","m","e">>}>>},
      issue_type |-> "Dropped Frames"],
     \* r'(memory.*pressure|low.*memory)': 'Memory Pressure'
     [pattern |-> {<<{<<"m","e","m","o","r","y">>}, {<<"p","r","e","s","s","u","r","e">>}>>,
                   <<{<<"l","o","w">>}, {<<"m","e","m","o","r","y">>}>>},
      issue_type |-> "Memory Pressure"],
     \* r'(OutOfMemory|heap.*size)': 'Memory Issues'
     [pattern |-> {<<{<<"O","u","t","O","f","M","e","m","o","r","y">>}>>,
                   <<{<<"h","e","a","p">>}, {<<"s","i","z","e">>}>>},
      issue_type |-> "Memory Issues"],
     \* r'(garbage.*collect|GC)': 'Garbage Collection'
     [pattern |-> {<<{<<"g","a","r","b","a","g","e">>}, {<<"c","o","l","l","e","c","t">>}>>,
                   <<{<<"G","C">>}>>},
      issue_type |-> "Garbage Collection"],
     \* r'(disk.*full|storage.*full)': 'Disk Full'
     [pattern |-> {<<{<<"d","i","s","k">>}, {<<"f","u","l","l">>}>>,
                   <<{<<"s","t","o","r","a","g","e">>}, {<<"f","u","l","l">>}>>},
      issue_type |-> "Disk Full"] >>

-----------------------------------------------------------------------------
(* The lines the inputs are made of.                                       *)

\* 'app started'
L_clean == <<"a","p","p"," ","s","t","a","r","t","e","d">>

\* 'NullPointerException'
L_npe ==
  <<"N","u","l","l","P","o","i","n","t","e","r","E","x","c","e","p","t","i",
    "o","n">>

\* 'nullpointerexception NULL Pointer'
L_npe_both ==
  <<"n","u","l","l","p","o","i","n","t","e","r","e","x","c","e","p","t","i",
    "o","n"," ","N","U","L","L"," ","P","o","i","n","t","e","r">>

\* 'Exception foo'
L_header == <<"E","x","c","e","p","t","i","o","n"," ","f","o","o">>

\* '  at bar()'
L_at_bar == <<" "," ","a","t"," ","b","a","r","(",")">>

\* '  at baz()'
L_at_baz == <<" "," ","a","t"," ","b","a","z","(",")">>

\* 'next unrelated'
L_unrelated == <<"n","e","x","t"," ","u","n","r","e","l","a","t","e","d">>

\* ''
L_empty == <<>>

\* '   '
L_spaces == <<" "," "," ">>

\* 'null safety nullable type'
L_null2 ==
  <<"n","u","l","l"," ","s","a","f","e","t","y"," ","n","u","l","l","a","b",
    "l","e"," ","t","y","p","e">>

\* 'future failed bad state'
L_async2 ==
  <<"f","u","t","u","r","e"," ","f","a","i","l","e","d"," ","b","a","d"," ",
    "s","t","a","t","e">>

\* 'NullPointerException in unhandled future'
L_npe_async ==
  <<"N","u","l","l","P","o","i","n","t","e","r","E","x","c","e","p","t","i",
    "o","n"," ","i","n"," ","u","n","h","a","n","d","l","e","d"," ","f","u",
    "t","u","r","e">>

\* 'NullPointerException NoSuchMethodError ClassCastException OutOfMemoryError StackOverflowError IOException NetworkError TimeoutException FormatException StateError MissingPluginException'
L_all_errors ==
  <<"N","u","l","l","P","o","i","n","t","e","r","E","x","c","e","p","t","i",
    "o","n"," ","N","o","S","u","c","h","M","e","t","h","o","d","E","r","r",
    "o","r"," ","C","l","a","s","s","C","a","s","t","E","x","c","e","p","t",
    "i","o","n"," ","O","u","t","O","f","M","e","m","o","r","y","E","r","r",
    "o","r"," ","S","t","a","c","k","O","v","e","r","f","l","o","w","E","r",
    "r","o","r"," ","I","O","E","x","c","e","p","t","i","o","n"," ","N","e",
    "t","w","o","r","k","E","r","r","o","r"," ","T","i","m","e","o","u","t",
    "E","x","c","e","p","t","i","o","n"," ","F","o","r","m","a","t","E","x",
    "c","e","p","t","i","o","n"," ","S","t","a","t","e","E","r","r","o","r",
    " ","M","i","s","s","i","n","g","P","l","u","g","i","n","E","x","c","e",
    "p","t","i","o","n">>

\* 'password stored'
L_security == <<"p","a","s","s","w","o","r","d"," ","s","t","o","r","e","d">>

\* 'low memory'
L_perf == <<"l","o","w"," ","m","e","m","o","r","y">>

\* 'OutOfMemoryError ANR'
L_oom_anr ==
  <<"O","u","t","O","f","M","e","m","o","r","y","E","r","r","o","r"," ","A",
    "N","R">>

-----------------------------------------------------------------------------
(* class LogAnalyzer                                                       *)

\* LogAnalyzer.__init__: the attributes of a fresh instance.  patterns is a
\* defaultdict(int); it is kept as the list of its items in insertion order.
LogAnalyzer ==
  [errors             |-> <<>>,
   warnings           |-> <<>>,
   stack_traces       |-> <<>>,
   patterns           |-> <<>>,
   security_issues    |-> <<>>,
   performance_issues |-> <<>>]

\* the dict a pass appends: {'type': ..., 'line': line.strip()}
Finding(type, line) == [type |-> type, line |-> strip(line)]

\* A faulty variant of increment: self.patterns[key] = 1, so a key counted
\* before stays at 1.  C10 does not hold of it.
increment_assign(patterns, key) ==
  IF \E k \in 1..Len(patterns) : patterns[k].name = key
  THEN patterns
  ELSE Append(patterns, [name |-> key, count |-> 1])

\* self.patterns[key] += 1 on a defaultdict(int)
increment(patterns, key) ==
  IF \E k \in 1..Len(patterns) : patterns[k].name = key
  THEN [k \in 1..Len(patterns) |->
          IF patterns[k].name = key
          THEN [patterns[k] EXCEPT !.count = @ + 1]
          ELSE patterns[k]]
  ELSE Append(patterns, [name |-> key, count |-> 1])

\* self.patterns[key], 0 for a key never incremented
count_of(patterns, key) ==
  IF \E k \in 1..Len(patterns) : patterns[k].name = key
  THEN patterns[CHOOSE k \in 1..Len(patterns) : patterns[k].name = key].count
  ELSE 0

RECURSIVE error_loop(_, _, _)
error_loop(self, line, k) ==
  IF k > Len(error_patterns) THEN self
  ELSE error_loop(
         IF re_search(error_patterns[k].pattern, line)
         THEN [self EXCEPT
                 !.errors = Append(@, Finding(error_patterns[k].name, line)),
                 !.patterns = increment(@, error_patterns[k].name)]
         ELSE self,
         line, k + 1)

\* A faulty variant of check_error_patterns: the first pattern is tested once
\* per alternative, so a line holding both 'NullPointerException' and
\* 'null pointer' is recorded twice.  C3 does not hold of it.
check_error_patterns_per_alternative(self, line) ==
  LET first  == {<<{<<"N","u","l","l","P","o","i","n","t","e","r","E","x","c",
                      "e","p","t","i","o","n">>}>>}
      second == {<<{<<"n","u","l","l"," ","p","o","i","n","t","e","r">>}>>}
      after  == error_loop(self, line, 1)
  IN  IF re_search(first, line) /\ re_search(second, line)
      THEN [after EXCEPT
              !.errors = Append(@, Finding("Null Pointer Exception", line)),
              !.patterns = increment(@, "Null Pointer Exception")]
      ELSE after

check_error_patterns(self, line) == error_loop(self, line, 1)

RECURSIVE null_loop(_, _, _)
null_loop(self, line, k) ==
  IF k > Len(null_patterns) THEN self
  ELSE null_loop(
         IF re_search(null_patterns[k].pattern, line)
         THEN [self EXCEPT
                 !.warnings = Append(@, Finding("Null Safety Issue", line)),
                 !.patterns = increment(@, "Null Safety Issue")]
         ELSE self,
         line, k + 1)

\* A faulty variant of check_null_safety_issues: the loop stops at the first
\* pattern that matches.  C6 (as amended) does not hold of it.
check_null_safety_first_match(self, line) ==
  IF \E k \in 1..Len(null_patterns) : re_search(null_patterns[k].pattern, line)
  THEN [self EXCEPT
          !.warnings = Append(@, Finding("Null Safety Issue", line)),
          !.patterns = increment(@, "Null Safety Issue")]
  ELSE self

check_null_safety_issues(self, line) == null_loop(self, line, 1)

RECURSIVE async_loop(_, _, _)
async_loop(self, line, k) ==
  IF k > Len(async_patterns) THEN self
  ELSE async_loop(
         IF re_search(async_patterns[k].pattern, line)
         THEN [self EXCEPT
                 !.errors = Append(@, Finding("Async/Future Error", line)),
                 !.patterns = increment(@, "Async Error")]
         ELSE self,
         line, k + 1)

check_async_errors(self, line) == async_loop(self, line, 1)

RECURSIVE security_loop(_, _, _)
security_loop(self, line, k) ==
  IF k > Len(security_patterns) THEN self
  ELSE security_loop(
         IF re_search(security_patterns[k].pattern, line)
         THEN [self EXCEPT
                 !.security_issues =
                    Append(@, Finding(security_patterns[k].issue_type, line)),
                 !.patterns =
                    increment(@, "Security: " \o security_patterns[k].issue_type)]
         ELSE self,
         line, k + 1)

check_security_issues(self, line) == security_loop(self, line, 1)

RECURSIVE performance_loop(_, _, _)
performance_loop(self, line, k) ==
  IF k > Len(perf_patterns) THEN self
  ELSE performance_loop(
         IF re_search(perf_patterns[k].pattern, line)
         THEN [self EXCEPT
                 !.performance_issues =
                    Append(@, Finding(perf_patterns[k].issue_type, line)),
                 !.patterns =
                    increment(@, "Performance: " \o perf_patterns[k].issue_type)]
         ELSE self,
         line, k + 1)

check_performance_issues(self, line) == performance_loop(self, line, 1)

\* 'at ' in line or 'File' in line and 'Line' in line
is_trace_start(line) ==
  \/ contains(line, <<"a","t"," ">>)
  \/ /\ contains(line, <<"F","i","l","e">>)
     /\ contains(line, <<"L","i","n","e">>)

\* A faulty variant of is_continuation: the test for two leading spaces is
\* left out.  C2 does not hold of it.
is_continuation_no_indent(l) ==
  \/ startswith(l, <<"a","t"," ">>)
  \/ contains(l, <<"F","i","l","e">>)

\* A faulty variant of is_continuation: every line that is empty after
\* trimming continues a trace.  C4 does not hold of it.
is_continuation_or_blank(l) ==
  \/ startswith(l, <<"a","t"," ">>)
  \/ startswith(l, <<" "," ">>)
  \/ contains(l, <<"F","i","l","e">>)
  \/ strip(l) = <<>>

\* the condition of the while loop on all_lines[i]
is_continuation(l) ==
  \/ startswith(l, <<"a","t"," ">>)
  \/ startswith(l, <<" "," ">>)
  \/ contains(l, <<"F","i","l","e">>)

\* the value of i when the while loop ends (i and index are 0-based, so
\* all_lines[i] is the model's all_lines[i + 1])
RECURSIVE trace_stop(_, _)
trace_stop(all_lines, i) ==
  IF i < Len(all_lines) /\ is_continuation(all_lines[i + 1])
  THEN trace_stop(all_lines, i + 1)
  ELSE i

\* the list `trace` when the while loop ends
collect_trace(line, index, all_lines) ==
  <<line>> \o SubSeq(all_lines, index + 2, trace_stop(all_lines, index + 1))

check_stack_traces(self, line, index, all_lines) ==
  IF is_trace_start(line)
  THEN LET trace == collect_trace(line, index, all_lines)
       IN  IF Len(trace) > 1
           THEN [self EXCEPT !.stack_traces = Append(@, join(<<"\n">>, trace))]
           ELSE self
  ELSE self

process_line(self, line, index, all_lines) ==
  IF strip(line) = <<>> THEN self
  ELSE check_stack_traces(
         check_performance_issues(
           check_security_issues(
             check_async_errors(
               check_null_safety_issues(
                 check_error_patterns(self, line), line), line), line), line),
         line, index, all_lines)

\* s[:n]
prefix(s, n) == SubSeq(s, 1, IF Len(s) < n THEN Len(s) ELSE n)

\* one print() of the report: what it is, and the values formatted into it
Printed(what, type, n, text) == [what |-> what, type |-> type, n |-> n, text |-> text]

\* sorted(items, key=lambda x: x[1], reverse=True): by descending count, items
\* of equal count in their original order
RECURSIVE sorted_by_count(_)
sorted_by_count(items) ==
  IF items = <<>> THEN <<>>
  ELSE LET rest == sorted_by_count(SubSeq(items, 1, Len(items) - 1))
           x    == items[Len(items)]
           \* x goes after every item whose count is at least its own
           keep == {k \in 0..Len(rest) : \A j \in 1..k : rest[j].count >= x.count}
           at   == CHOOSE k \in keep : \A j \in keep : j <= k
       IN  SubSeq(rest, 1, at) \o <<x>> \o SubSeq(rest, at + 1, Len(rest))

\* a numbered listing of the first `limit` findings and the "... and N more" line
listing(what, findings, limit) ==
  [k \in 1..(IF Len(findings) < limit THEN Len(findings) ELSE limit) |->
     Printed(what, findings[k].type, k, prefix(findings[k].line, 80))]
  \o (IF Len(findings) > limit
      THEN <<Printed(what \o " more", "", Len(findings) - limit, <<>>)>>
      ELSE <<>>)

\* print_report up to and including line 239
report_head(self) ==
  <<Printed("banner", "", 0, <<>>),
    Printed("Total Issues Found", "", Len(self.errors) + Len(self.warnings), <<>>),
    Printed("Critical Errors", "", Len(self.errors), <<>>),
    Printed("Warnings", "", Len(self.warnings), <<>>),
    Printed("Security Issues", "", Len(self.security_issues), <<>>),
    Printed("Performance Issues", "", Len(self.performance_issues), <<>>)>>
  \o (IF self.patterns # <<>>
      THEN <<Printed("ERROR PATTERNS DETECTED", "", 0, <<>>)>>
           \o [k \in 1..Len(self.patterns) |->
                 Printed("pattern", sorted_by_count(self.patterns)[k].name,
                         sorted_by_count(self.patterns)[k].count, <<>>)]
      ELSE <<>>)
  \o (IF self.errors # <<>>
      THEN <<Printed("CRITICAL ERRORS", "", 0, <<>>)>>
           \o listing("error", self.errors, 10)
      ELSE <<>>)
  \o (IF self.security_issues # <<>>
      THEN <<Printed("SECURITY ISSUES", "", 0, <<>>)>>
           \o listing("security", self.security_issues, 10)
      ELSE <<>>)
  \o (IF self.performance_issues # <<>>
      THEN <<Printed("PERFORMANCE ISSUES", "", 0, <<>>)>>
           \o listing("performance", self.performance_issues, 5)
      ELSE <<>>)
  \o (IF self.stack_traces # <<>>
      THEN <<Printed("STACK TRACES", "", 0, <<>>)>>
           \o [k \in 1..(IF Len(self.stack_traces) < 3
                         THEN Len(self.stack_traces) ELSE 3) |->
                 Printed("trace", IF Len(self.stack_traces[k]) > 500 THEN "..." ELSE "",
                         k, prefix(self.stack_traces[k], 500))]
           \o (IF Len(self.stack_traces) > 3
               THEN <<Printed("trace more", "", Len(self.stack_traces) - 3, <<>>)>>
               ELSE <<>>)
      ELSE <<>>)
  \o <<Printed("RECOMMENDATIONS", "", 0, <<>>)>>
  \o (IF self.errors # <<>>
      THEN <<Printed("recommendation", "", 1, <<>>)>> ELSE <<>>)

\* print_report from line 240 on, for an instance that has async_errors
report_tail(self) ==
     (IF self.async_errors # <<>>
      THEN <<Printed("recommendation", "", 2, <<>>)>> ELSE <<>>)
  \o (IF self.security_issues # <<>>
      THEN <<Printed("recommendation", "", 3, <<>>)>> ELSE <<>>)
  \o (IF self.performance_issues # <<>>
      THEN <<Printed("recommendation", "", 4, <<>>)>> ELSE <<>>)
  \o <<Printed("recommendation", "", 5, <<>>), Printed("footer", "", 0, <<>>)>>

\* print_report: what it prints, and whether it raises.  Line 240 reads
\* self.async_errors; reading an attribute the instance does not have raises
\* AttributeError.
print_report(self) ==
  IF "async_errors" \in DOMAIN self
  THEN [out |-> report_head(self) \o report_tail(self), raised |-> FALSE]
  ELSE [out |-> report_head(self), raised |-> TRUE]

-----------------------------------------------------------------------------
(* The inputs the runs are checked on.                                     *)

\* the most lines an input text holds
MaxLines == 3

\* the most lines an input text holds in the runs over the four-line example
MaxExampleLines == 4

\* the texts made of at most n lines of `vocabulary`, joined by "\n"
Texts(vocabulary, n) ==
  {join(<<"\n">>, s) : s \in UNION {[1..m -> vocabulary] : m \in 0..n}}

MainLines == {L_clean, L_npe, L_security, L_perf, L_at_bar, L_empty}

TraceLines == {L_header, L_at_bar, L_at_baz, L_unrelated, L_spaces, L_empty}

ExampleLines == {L_header, L_at_bar, L_at_baz, L_unrelated}

CountLines == {L_npe_both, L_null2, L_async2, L_oom_anr, L_security}

BigLines == {L_all_errors, L_async2, L_clean}

OrderLines == {L_npe_async, L_oom_anr}

\* the orders in which the five pattern passes can run
Passes == {"error", "null_safety", "async", "security", "performance"}

PassOrders ==
  {o \in [1..Cardinality(Passes) -> Passes] :
     \A p \in Passes : \E k \in DOMAIN o : o[k] = p}

\* process_line with the five pattern passes run in the order o
run_pass(name, self, line) ==
  CASE name = "error"       -> check_error_patterns(self, line)
    [] name = "null_safety" -> check_null_safety_issues(self, line)
    [] name = "async"       -> check_async_errors(self, line)
    [] name = "security"    -> check_security_issues(self, line)
    [] name = "performance" -> check_performance_issues(self, line)

RECURSIVE run_passes(_, _, _, _)
run_passes(o, k, self, line) ==
  IF k > Len(o) THEN self
  ELSE run_passes(o, k + 1, run_pass(o[k], self, line), line)

process_line_in_order(o, self, line, index, all_lines) ==
  IF strip(line) = <<>> THEN self
  ELSE check_stack_traces(run_passes(o, 1, self, line), line, index, all_lines)

\* the order of lines 50-54
CodeOrder == <<"error", "null_safety", "async", "security", "performance">>

-----------------------------------------------------------------------------
(* main()                                                                  *)

\* the state when main() is entered, for an input drawn from `texts`
Start(texts) ==
  /\ argv \in {"none", "file"}
  /\ fs \in {"ok", "missing", "unreadable"}
  /\ argv = "none" => fs = "ok"
  /\ content \in texts
  /\ fs # "ok" => content = <<>>
  /\ lines = <<>>
  /\ idx = 0
  /\ analyzer = LogAnalyzer
  /\ spans = <<>>
  /\ stdout = <<>>
  /\ stderr = <<>>
  /\ pc = "main"
  /\ exit_code = -1
  /\ alt = LogAnalyzer

Init == Start(Texts(MainLines, MaxLines)) /\ order = CodeOrder

InitTrace == Start(Texts(TraceLines, MaxLines)) /\ order = CodeOrder

InitExample == Start(Texts(ExampleLines, MaxExampleLines)) /\ order = CodeOrder

InitCount == Start(Texts(CountLines, MaxLines)) /\ order = CodeOrder

InitBig == Start(Texts(BigLines, MaxLines)) /\ order = CodeOrder

InitOrder == Start(Texts(OrderLines, MaxLines)) /\ order \in PassOrders

\* main, lines 250-254, and analyze_stdin, line 40
ReadStdin ==
  /\ pc = "main"
  /\ argv = "none"
  /\ stdout' = Append(stdout, Printed("Reading logs from stdin", "", 0, <<>>))
  /\ lines' = readlines(content)
  /\ pc' = "loop"
  /\ UNCHANGED <<argv, fs, content, idx, analyzer, spans, stderr, exit_code,
                 order, alt>>

\* A faulty variant of FileNotFound: main ignores the False that analyze_file
\* returns and goes on to the report.  C7 does not hold of it.
FileNotFoundIgnored ==
  /\ pc = "main"
  /\ argv = "file"
  /\ fs = "missing"
  /\ stdout' = Append(stdout, Printed("Error: File not found", "", 0, <<>>))
  /\ pc' = "loop"
  /\ UNCHANGED <<argv, fs, content, lines, idx, analyzer, spans, stderr,
                 exit_code, order, alt>>

\* main, lines 256-260, with analyze_file, lines 25-30: open() raises
\* FileNotFoundError, analyze_file prints and returns False, main exits 1
FileNotFound ==
  /\ pc = "main"
  /\ argv = "file"
  /\ fs = "missing"
  /\ stdout' = Append(stdout, Printed("Error: File not found", "", 0, <<>>))
  /\ pc' = "done"
  /\ exit_code' = 1
  /\ UNCHANGED <<argv, fs, content, lines, idx, analyzer, spans, stderr,
                 order, alt>>

\* analyze_file, lines 25-28: open() raises another OSError (a directory, no
\* permission), which no handler catches: the interpreter writes the
\* traceback and exits with status 1
OpenRaises ==
  /\ pc = "main"
  /\ argv = "file"
  /\ fs = "unreadable"
  /\ stderr' = Append(stderr, Printed("Traceback", "OSError", 0, <<>>))
  /\ pc' = "done"
  /\ exit_code' = 1
  /\ UNCHANGED <<argv, fs, content, lines, idx, analyzer, spans, stdout,
                 order, alt>>

\* analyze_file, lines 26-32: the file is read and split into lines
ReadFile ==
  /\ pc = "main"
  /\ argv = "file"
  /\ fs = "ok"
  /\ lines' = split(content, "\n")
  /\ pc' = "loop"
  /\ UNCHANGED <<argv, fs, content, idx, analyzer, spans, stdout, stderr,
                 exit_code, order, alt>>

\* the line the loop passes to _process_line: analyze_file passes lines[i],
\* analyze_stdin passes lines[i].strip()
current_line ==
  IF argv = "none" THEN strip(lines[idx + 1]) ELSE lines[idx + 1]

\* the indices <<first, last>> of the lines of the trace the step records
new_spans(self, after) ==
  IF Len(after.stack_traces) > Len(self.stack_traces)
  THEN <<<<idx, trace_stop(lines, idx + 1) - 1>>>>
  ELSE <<>>

\* one iteration of the loop of analyze_file (33-34) or analyze_stdin (41-42)
ProcessLine ==
  /\ pc = "loop"
  /\ idx < Len(lines)
  /\ analyzer' = process_line(analyzer, current_line, idx, lines)
  /\ spans' = spans \o new_spans(analyzer, analyzer')
  /\ idx' = idx + 1
  /\ UNCHANGED <<argv, fs, content, lines, stdout, stderr, pc, exit_code,
                 order, alt>>

\* the same iteration, with a second analyzer running the passes in `order`
ProcessLineBoth ==
  /\ pc = "loop"
  /\ idx < Len(lines)
  /\ analyzer' = process_line(analyzer, current_line, idx, lines)
  /\ alt' = process_line_in_order(order, alt, current_line, idx, lines)
  /\ spans' = spans \o new_spans(analyzer, analyzer')
  /\ idx' = idx + 1
  /\ UNCHANGED <<argv, fs, content, lines, stdout, stderr, pc, exit_code,
                 order>>

\* main, lines 262-266, once the loop is over: print_report, then the exit
\* status.  An exception print_report raises is caught nowhere: the
\* interpreter writes the traceback and exits with status 1.
Report ==
  /\ pc = "loop"
  /\ idx = Len(lines)
  /\ LET r == print_report(analyzer)
     IN  /\ stdout' = stdout \o r.out
         /\ IF r.raised
            THEN /\ stderr' = Append(stderr,
                                Printed("Traceback", "AttributeError", 0, <<>>))
                 /\ exit_code' = 1
            ELSE /\ stderr' = stderr
                 /\ exit_code' =
                      IF analyzer.errors # <<>> \/ analyzer.security_issues # <<>>
                      THEN 1 ELSE 0
  /\ pc' = "done"
  /\ UNCHANGED <<argv, fs, content, lines, idx, analyzer, spans, order, alt>>

Next ==
  \/ ReadStdin
  \/ FileNotFound
  \/ OpenRaises
  \/ ReadFile
  \/ ProcessLine
  \/ Report

NextBoth ==
  \/ ReadStdin
  \/ FileNotFound
  \/ OpenRaises
  \/ ReadFile
  \/ ProcessLineBoth
  \/ Report

Spec == Init /\ [][Next]_vars

SpecTrace == InitTrace /\ [][Next]_vars

SpecExample == InitExample /\ [][Next]_vars

SpecCount == InitCount /\ [][Next]_vars

SpecBig == InitBig /\ [][Next]_vars

SpecOrder == InitOrder /\ [][NextBoth]_vars

-----------------------------------------------------------------------------
(* Vocabulary of the properties.                                           *)

\* the catalogs' patterns, all five passes together
all_patterns ==
  {error_patterns[k].pattern : k \in 1..Len(error_patterns)}
  \cup {null_patterns[k].pattern : k \in 1..Len(null_patterns)}
  \cup {async_patterns[k].pattern : k \in 1..Len(async_patterns)}
  \cup {security_patterns[k].pattern : k \in 1..Len(security_patterns)}
  \cup {perf_patterns[k].pattern : k \in 1..Len(perf_patterns)}

\* the line matches some pattern of some catalog
matches_any(line) == \E p \in all_patterns : re_search(p, line)

\* t occurs in s, letter case ignored
contains_ignorecase(s, t) ==
  \E p \in 1..(Len(s) - Len(t) + 1) : occurs_at_ignorecase(s, t, p)

NullPointerException ==
  <<"N","u","l","l","P","o","i","n","t","e","r","E","x","c","e","p","t","i",
    "o","n">>

\* the run is over and the analysis ran (the input could be read)
Analyzed == pc = "done" /\ fs = "ok"

\* something was printed under the heading `what`
printed(stream, what) == \E k \in 1..Len(stream) : stream[k].what = what

\* the step is one iteration of the analysis loop
LineStep == pc = "loop" /\ idx < Len(lines) /\ idx' = idx + 1

\* a line that is empty after trimming
blank(l) == strip(l) = <<>>

-----------------------------------------------------------------------------
(* C1: a complete run over an input in which no line matches any pattern   *)
(* ends with exit code 0, and a run over an input holding one line with    *)
(* 'NullPointerException' ends with exit code 1.                           *)
(* The code does not do this: print_report raises AttributeError on        *)
(* self.async_errors, so every run that reaches the report exits with 1.   *)
C1_ExitCodes ==
  Analyzed =>
    /\ (\A k \in 1..Len(lines) : ~matches_any(lines[k])) => exit_code = 0
    /\ (\E k \in 1..Len(lines) :
          contains_ignorecase(lines[k], NullPointerException)) => exit_code = 1

-----------------------------------------------------------------------------
(* C7: when the named file cannot be opened the failure is reported, no    *)
(* line is processed (finding lists, counts and stack traces stay empty),  *)
(* no report is printed and the process ends with exit code 1; the         *)
(* analysis either runs over the whole input or does not start.            *)
C7_OpenFailure ==
  /\ (argv = "file" /\ fs # "ok") =>
       /\ analyzer = LogAnalyzer
       /\ idx = 0
       /\ lines = <<>>
       /\ ~printed(stdout, "banner")
       /\ pc = "done" =>
            /\ exit_code = 1
            /\ \/ printed(stdout, "Error: File not found")
               \/ printed(stderr, "Traceback")
  /\ pc = "done" => (idx = 0 /\ fs # "ok") \/ (idx = Len(lines) /\ fs = "ok")

\* a run that ended because the file could not be opened
C7_Witness == pc = "done" /\ argv = "file" /\ fs = "missing" /\ exit_code = 1

-----------------------------------------------------------------------------
(* The four-line example: a header without 'at ', two lines starting with  *)
(* two spaces and 'at ', an unrelated line.                                *)
Example == join(<<"\n">>, <<L_header, L_at_bar, L_at_baz, L_unrelated>>)

\* the number of lines of the k-th recorded stack trace
block_lines(k) == spans[k][2] - spans[k][1] + 1

(* C2, as claimed: analyzing the four-line example records exactly one     *)
(* StackTraceBlock, and that block has 3 lines (the header and both        *)
(* continuation lines).                                                    *)
C2_HeaderAndTwoLines ==
  (Analyzed /\ content = Example) =>
    /\ Len(analyzer.stack_traces) = 1
    /\ block_lines(1) = 3

(* C2, amended: analyzing the four-line example records exactly one        *)
(* StackTraceBlock, and that block has 2 lines: the two continuation       *)
(* lines.  The header holds no 'at ' and starts no block; the block starts *)
(* at the first 'at ' line.                                                *)
C2_TwoContinuationLines ==
  (Analyzed /\ content = Example) =>
    /\ Len(analyzer.stack_traces) = 1
    /\ spans = <<<<1, 2>>>>
    /\ block_lines(1) = 2
    /\ argv = "file" =>
         analyzer.stack_traces[1] = join(<<"\n">>, <<L_at_bar, L_at_baz>>)

\* a finished analysis of the four-line example, with its block recorded
C2_Witness ==
  Analyzed /\ content = Example /\ Len(analyzer.stack_traces) = 1

-----------------------------------------------------------------------------
(* C4, as claimed: a line that is empty after trimming is skipped          *)
(* entirely: processing it leaves the finding lists, the counts and the    *)
(* stack traces unchanged, and such a line is never part of a recorded     *)
(* StackTraceBlock.                                                        *)
C4_BlankNeverRecorded ==
  [][/\ (LineStep /\ blank(lines[idx + 1])) => analyzer' = analyzer
     /\ \A k \in 1..Len(spans') : \A i \in spans'[k][1]..spans'[k][2] :
          ~blank(lines'[i + 1])]_vars

(* C4, amended: processing a line that is empty after trimming leaves the  *)
(* finding lists, the counts and the stack traces unchanged, and such a    *)
(* line never starts a StackTraceBlock; but a blank line that starts with  *)
(* two spaces is taken into the block of an earlier trace-start line as a  *)
(* continuation line.  A blank line that does not start with two spaces    *)
(* (an empty line) is never part of a block.                               *)
C4_BlankSkippedAsCurrentLine ==
  [][/\ (LineStep /\ blank(lines[idx + 1])) =>
          analyzer' = analyzer /\ spans' = spans
     /\ \A k \in 1..Len(spans') :
          /\ ~blank(lines'[spans'[k][1] + 1])
          /\ \A i \in spans'[k][1]..spans'[k][2] :
               blank(lines'[i + 1]) => startswith(lines'[i + 1], <<" "," ">>)]_vars

\* a blank line has been processed, and it is part of a recorded block
C4_Witness ==
  \E k \in 1..Len(spans) : \E i \in spans[k][1]..spans[k][2] :
    blank(lines[i + 1]) /\ i < idx

-----------------------------------------------------------------------------
(* C9: every recorded StackTraceBlock is a maximal run of consecutive      *)
(* trace lines: no input line belongs to more than one recorded block, and *)
(* no recorded block is a proper sub-run (suffix) of another.              *)
(* The code does not do this: the loop of analyze_file starts a new block  *)
(* at every line that holds 'at ', also at lines an earlier block has      *)
(* consumed.                                                               *)
C9_BlocksMaximalAndDisjoint ==
  \A j, k \in 1..Len(spans) :
    j # k =>
      /\ spans[j][2] < spans[k][1] \/ spans[k][2] < spans[j][1]
      /\ ~(spans[j][1] > spans[k][1] /\ spans[j][2] = spans[k][2])

-----------------------------------------------------------------------------
(* The category labels, and the patterns that carry each.                  *)

Labels ==
  {error_patterns[k].name : k \in 1..Len(error_patterns)}
  \cup {"Null Safety Issue", "Async Error"}
  \cup {"Security: " \o security_patterns[k].issue_type :
          k \in 1..Len(security_patterns)}
  \cup {"Performance: " \o perf_patterns[k].issue_type :
          k \in 1..Len(perf_patterns)}

\* the number of patterns carrying `label` that the line matches
matching_patterns(label, line) ==
  Cardinality({k \in 1..Len(error_patterns) :
                 error_patterns[k].name = label
                 /\ re_search(error_patterns[k].pattern, line)})
  + Cardinality({k \in 1..Len(null_patterns) :
                 label = "Null Safety Issue"
                 /\ re_search(null_patterns[k].pattern, line)})
  + Cardinality({k \in 1..Len(async_patterns) :
                 label = "Async Error"
                 /\ re_search(async_patterns[k].pattern, line)})
  + Cardinality({k \in 1..Len(security_patterns) :
                 "Security: " \o security_patterns[k].issue_type = label
                 /\ re_search(security_patterns[k].pattern, line)})
  + Cardinality({k \in 1..Len(perf_patterns) :
                 "Performance: " \o perf_patterns[k].issue_type = label
                 /\ re_search(perf_patterns[k].pattern, line)})

\* the findings a step appends to a list
appended(before, after) == SubSeq(after, Len(before) + 1, Len(after))

-----------------------------------------------------------------------------
(* C3: for every non-blank line that holds 'NullPointerException' in any   *)
(* letter case, processing the line raises the count of 'Null Pointer      *)
(* Exception' by exactly 1 and appends to errors exactly one Finding of    *)
(* that type, with the trimmed line, whatever else the line holds.         *)
C3_NullPointerCountedOnce ==
  [][(/\ LineStep
      /\ ~blank(lines[idx + 1])
      /\ contains_ignorecase(lines[idx + 1], NullPointerException))
     => LET new == appended(analyzer.errors, analyzer'.errors)
        IN  /\ count_of(analyzer'.patterns, "Null Pointer Exception")
                 = count_of(analyzer.patterns, "Null Pointer Exception") + 1
            /\ SubSeq(analyzer'.errors, 1, Len(analyzer.errors)) = analyzer.errors
            /\ Cardinality({k \in 1..Len(new) :
                              new[k].type = "Null Pointer Exception"}) = 1
            /\ \A k \in 1..Len(new) :
                 new[k].type = "Null Pointer Exception"
                   => new[k].line = strip(lines[idx + 1])]_vars

\* a line holding both 'nullpointerexception' and 'NULL Pointer' has been
\* processed and counted
C3_Witness ==
  /\ idx >= 1
  /\ strip(lines[idx]) = L_npe_both
  /\ count_of(analyzer.patterns, "Null Pointer Exception") >= 1

-----------------------------------------------------------------------------
(* C6, as claimed: processing one line raises the count of every category  *)
(* label by at most 1, however many patterns carrying that label the line  *)
(* matches.                                                                *)
C6_AtMostOncePerLine ==
  [][LineStep =>
       \A label \in Labels :
         count_of(analyzer'.patterns, label)
           <= count_of(analyzer.patterns, label) + 1]_vars

(* C6, amended: processing one line raises the count of every category     *)
(* label by the number of patterns carrying that label that the line       *)
(* matches: at most 1 for the error, security and performance labels (one  *)
(* pattern each), up to 5 for 'Null Safety Issue' and up to 6 for 'Async   *)
(* Error'; no other label is ever counted.                                 *)
C6_OncePerMatchingPattern ==
  [][LineStep =>
       /\ \A label \in Labels :
            count_of(analyzer'.patterns, label)
              = count_of(analyzer.patterns, label)
                + (IF blank(current_line) THEN 0
                   ELSE matching_patterns(label, current_line))
       /\ \A k \in 1..Len(analyzer'.patterns) :
            analyzer'.patterns[k].name \in Labels
       /\ \A label \in Labels :
            matching_patterns(label, current_line)
              <= (IF label = "Null Safety Issue" THEN Len(null_patterns)
                  ELSE IF label = "Async Error" THEN Len(async_patterns)
                  ELSE 1)]_vars

\* the first line matched two null-safety patterns and was counted twice
C6_Witness ==
  /\ idx = 1
  /\ strip(lines[1]) = L_null2
  /\ count_of(analyzer.patterns, "Null Safety Issue") = 2

-----------------------------------------------------------------------------
(* C10: after any sequence of processed lines, the counts of the           *)
(* pattern-count map add up to len(errors) + len(warnings) +               *)
(* len(security_issues) + len(performance_issues).                         *)
RECURSIVE total_count(_)
total_count(patterns) ==
  IF patterns = <<>> THEN 0
  ELSE Head(patterns).count + total_count(Tail(patterns))

C10_CountsMatchFindings ==
  total_count(analyzer.patterns)
    = Len(analyzer.errors) + Len(analyzer.warnings)
      + Len(analyzer.security_issues) + Len(analyzer.performance_issues)

\* several lines were processed and some label was counted more than once
C10_Witness ==
  /\ idx >= 2
  /\ \E k \in 1..Len(analyzer.patterns) : analyzer.patterns[k].count >= 3
  /\ Len(analyzer.patterns) >= 2

-----------------------------------------------------------------------------
(* C8: after n processed lines each finding list holds at most n times the *)
(* number of patterns of the list's own catalog: errors <= 10 n, warnings  *)
(* <= 5 n, security_issues <= 6 n, performance_issues <= 6 n.              *)
(* The code does not keep this for errors: the async pass appends its      *)
(* findings to errors too (see C5), so one line can add up to 16.          *)
C8_ListsBoundedByOwnCatalog ==
  /\ Len(analyzer.errors) <= Len(error_patterns) * idx
  /\ Len(analyzer.warnings) <= Len(null_patterns) * idx
  /\ Len(analyzer.security_issues) <= Len(security_patterns) * idx
  /\ Len(analyzer.performance_issues) <= Len(perf_patterns) * idx

-----------------------------------------------------------------------------
(* C5: the order in which the five pattern passes run on a line does not   *)
(* affect the result: for every input and every order of the passes the    *)
(* four finding lists (contents and order), the count of every label and   *)
(* the stack traces are the same, the passes writing to disjoint           *)
(* collections.                                                            *)
(* The code does not do this: the error pass and the async pass both       *)
(* append to errors, while print_report reads a list async_errors that no  *)
(* pass fills.                                                             *)
C5_PassOrderIrrelevant ==
  /\ alt.errors = analyzer.errors
  /\ alt.warnings = analyzer.warnings
  /\ alt.security_issues = analyzer.security_issues
  /\ alt.performance_issues = analyzer.performance_issues
  /\ alt.stack_traces = analyzer.stack_traces
  /\ \A label \in Labels :
       count_of(alt.patterns, label) = count_of(analyzer.patterns, label)

====
